---- MODULE Spec2Model ----
(***************************************************************************)
(* docs/tutorials/render_colored_points.ipynb as a state machine.          *)
(*                                                                         *)
(* One behaviour is a sequence of "Restart kernel & Run All" executions of *)
(* the notebook: the cells run top to bottom, the first Python exception   *)
(* stops the run, shell lines (!pip, !mkdir, !wget) never raise.  The      *)
(* kernel's variables are lost at a restart, the file system and the       *)
(* installed packages are kept.  Python objects live on a heap and the     *)
(* notebook's names hold addresses, so that rebinding a name and mutating  *)
(* an object are different things.                                         *)
(***************************************************************************)
EXTENDS Integers, Sequences, FiniteSets, TLC

\* ------------------------------------------------------------------ bounds
\* Longest array stored in an archive of the model.
MaxPoints == 2
\* Number of Run All executions in one behaviour.
MaxRuns == 2

\* ------------------------------------------------------- program constants
\* look_at_view_transform(20, 10, 0)
ViewDist == 20
ViewElev == 10
ViewAzim == 0
\* znear = 0.01, in hundredths
ZNearHundredths == 1
\* image_size = 512
ImageSize == 512
\* radius = 0.003, in thousandths
RadiusThousandths == 3
\* points_per_pixel = 10
PointsPerPixel == 10
\* images[0, ..., :3]
DisplayBatchIndex == 0
DisplayChannels == 3

\* ------------------------------------------------------------------ values
\* An unbound name / no value, and a bound one.
None == <<>>
Some(x) == <<x>>
Get(o) == o[1]

Positions == {"p0", "p1"}
Colors == {"c0", "c1"}
\* Number of values per color record stored in the archive (RGB or RGBA).
ChannelCounts == {3, 4}

SeqsUpTo(S, n) == UNION {[1..k -> S] : k \in 0..n}

\* The contents a file at the data path can have: bytes that are no archive
\* (parses = FALSE), or an .npz archive with the named arrays it holds.
MkArchive(parses, keys, verts, rgb, ch) ==
    [parses |-> parses, keys |-> keys, verts |-> verts, rgb |-> rgb, ch |-> ch]

CorruptFile == MkArchive(FALSE, {}, <<>>, <<>>, 3)

Archives ==
    {CorruptFile}
    \cup {MkArchive(TRUE, {}, <<>>, <<>>, 3)}
    \cup {MkArchive(TRUE, {"verts"}, v, <<>>, 3) : v \in SeqsUpTo(Positions, MaxPoints)}
    \cup {MkArchive(TRUE, {"rgb"}, <<>>, c, ch) :
            c \in SeqsUpTo(Colors, MaxPoints), ch \in ChannelCounts}
    \cup {MkArchive(TRUE, {"verts", "rgb"}, v, c, ch) :
            v \in SeqsUpTo(Positions, MaxPoints),
            c \in SeqsUpTo(Colors, MaxPoints), ch \in ChannelCounts}

\* The file the URL of the fetch cell serves: a well-formed archive.
ServerArchive == MkArchive(TRUE, {"verts", "rgb"}, <<"p0">>, <<"c0">>, 4)

\* ------------------------------------------------------------------- state
VARIABLES
    \* environment, kept across runs
    fs,          \* data/PittsburghBridge: fs[1] is pointcloud.npz, fs[k+1] is pointcloud.npz.k
    pkgs,        \* torch, torchvision and pytorch3d (what the pip cell installs) are importable
    otherPkgs,   \* matplotlib, skimage and numpy (installed by no cell) are importable
    cuda,        \* torch.cuda.is_available()
    \* the run
    run,         \* number of the current Run All execution
    pc,          \* the cell (or part of a cell) to execute next, "failed" or "done"
    error,       \* the exception that stopped the run, or None
    trace,       \* the steps executed so far in this run
    \* the kernel's names
    device, pointcloud, verts, rgb, point_cloud,
    RT, cameras, raster_settings, renderer, images,
    \* the Python objects the names refer to, by address
    heap,
    \* what happened at the library boundary in this run
    calls,       \* the renderer(point_cloud) invocations
    shown        \* the arrays handed to plt.imshow

env == <<fs, pkgs, otherPkgs, cuda>>
loadNames == <<device, pointcloud, verts, rgb, point_cloud>>
cfgNames == <<RT, cameras, raster_settings, renderer>>
vars == <<fs, pkgs, otherPkgs, cuda, run, pc, error, trace, device, pointcloud, verts, rgb,
          point_cloud, RT, cameras, raster_settings, renderer, images, heap,
          calls, shown>>

\* --------------------------------------------------------- the cell order
\* The code cells top to bottom; the cells that hold two stages of the
\* pipeline are split at the stage boundary.
Steps == <<"install", "import", "fetch", "setup", "load",
           "config1", "assemble1", "render1", "display1",
           "config2", "assemble2", "render2", "display2">>

\* Mutant of NextStep: the render cell placed before the renderer is built.
NextStep_RenderBeforeAssemble(s) ==
    LET order == <<"install", "import", "fetch", "setup", "load",
                   "config1", "render1", "assemble1", "display1",
                   "config2", "assemble2", "render2", "display2">>
        i == CHOOSE k \in 1..Len(order) : order[k] = s
    IN  IF i = Len(order) THEN "done" ELSE order[i + 1]

\* The step Run All executes after step s.
NextStep(s) ==
    LET i == CHOOSE k \in 1..Len(Steps) : Steps[k] = s
    IN  IF i = Len(Steps) THEN "done" ELSE Steps[i + 1]

\* A step ran to its end: Run All goes on to the next one.
Advance(s) ==
    /\ pc' = NextStep(s)
    /\ error' = error
    /\ trace' = Append(trace, s)
    /\ run' = run

\* A step raised e: Run All stops.
Raise(s, e) ==
    /\ pc' = "failed"
    /\ error' = Some(e)
    /\ trace' = Append(trace, s)
    /\ run' = run

\* ------------------------------------------------------------ the heap
Alloc(h, obj) == Append(h, obj)
NewAddr(h) == Len(h) + 1

\* torch.Tensor(array).to(device)
Tensor(data, ch, dev) == [data |-> data, ch |-> ch, device |-> dev]

\* ----------------------------------------------------------------- Init
Init ==
    /\ fs \in {<<>>} \cup {<<a>> : a \in Archives}
    /\ pkgs \in BOOLEAN
    /\ otherPkgs \in BOOLEAN
    /\ cuda \in BOOLEAN
    /\ run = 1
    /\ pc = "install"
    /\ error = None
    /\ trace = <<>>
    /\ device = None /\ pointcloud = None /\ verts = None /\ rgb = None
    /\ point_cloud = None
    /\ RT = None /\ cameras = None /\ raster_settings = None /\ renderer = None
    /\ images = None
    /\ heap = <<>>
    /\ calls = <<>>
    /\ shown = <<>>

\* ------------------------------------------------- environment and fetch
\* !pip install torch torchvision; !pip install 'git+https://...pytorch3d.git'
\* A shell line never raises; offline, pip installs nothing.
InstallDeps ==
    /\ pc = "install"
    /\ \E online \in BOOLEAN : pkgs' = (pkgs \/ online)
    /\ Advance("install")
    /\ UNCHANGED <<fs, otherPkgs, cuda, loadNames, cfgNames, images, heap, calls, shown>>

\* Every module the cell names must be importable: those the pip cell installs
\* (torch, pytorch3d) and those no cell installs (matplotlib.pyplot,
\* skimage.io, numpy; os is always there).
ImportsResolve(installed, others) == installed /\ others

\* import os, torch, ...; from pytorch3d.structures import Pointclouds; ...
ImportModules ==
    /\ pc = "import"
    /\ IF ImportsResolve(pkgs, otherPkgs)
       THEN Advance("import")
       ELSE Raise("import", "ModuleNotFoundError")
    /\ UNCHANGED <<env, loadNames, cfgNames, images, heap, calls, shown>>

\* wget -P dir URL writes the download to the first unused name among
\* pointcloud.npz, pointcloud.npz.1, pointcloud.npz.2, ...: it has neither -nc
\* nor -N, so an existing file does not stop it.
WgetSave(files, content) == Append(files, content)

\* What one wget can do to the directory: nothing (offline), the served file,
\* or a transfer cut short.
WgetOutcomes(files) ==
    {files, WgetSave(files, ServerArchive), WgetSave(files, CorruptFile)}

\* !mkdir -p data/PittsburghBridge; !wget -P data/PittsburghBridge <URL>
FetchAsset ==
    /\ pc = "fetch"
    /\ fs' \in WgetOutcomes(fs)
    /\ Advance("fetch")
    /\ UNCHANGED <<pkgs, otherPkgs, cuda, loadNames, cfgNames, images, heap, calls, shown>>

\* ------------------------------------------------------- setup and load
\* if torch.cuda.is_available(): device = cuda:0 else: device = cpu
SelectDevice(available) == IF available THEN "cuda:0" ELSE "cpu"

\* os.path.join(DATA_DIR, "PittsburghBridge/pointcloud.npz"): the file the
\* load reads is pointcloud.npz itself, never a pointcloud.npz.k beside it.
ObjFileIndex == 1

\* # Setup ... # Set paths
SetupDevice ==
    /\ pc = "setup"
    /\ device' = Some(SelectDevice(cuda))
    /\ Advance("setup")
    /\ UNCHANGED <<env, pointcloud, verts, rgb, point_cloud, cfgNames, images,
                   heap, calls, shown>>

\* np.load(obj_filename): the exception it raises, or None.
NpLoadError(files) ==
    IF Len(files) < ObjFileIndex THEN Some("FileNotFoundError")
    ELSE IF ~files[ObjFileIndex].parses THEN Some("ParseError")
    ELSE None

\* Mutant of PointcloudsAccepts: a constructor that checks nothing.
PointcloudsAccepts_NoCheck(p, f) == TRUE

\* Pointclouds(points=[p], features=[f]): the library accepts a features list
\* only when each cloud has as many feature rows as points.
PointcloudsAccepts(p, f) == Len(p.data) = Len(f.data)

\* The object Pointclouds(points=[p], features=[f]) builds.
PointcloudsObject(p, f) ==
    [kind |-> "Pointclouds", points |-> <<p>>, features |-> <<f>>]

\* Mutant of LoadResult: a missing 'rgb' array is tolerated and the cloud is
\* built from the positions alone.
LoadResult_VertsOnly(files, dev) ==
    LET e0 == NpLoadError(files)
        a  == files[ObjFileIndex]
        v  == Tensor(a.verts, 3, dev)
        c  == Tensor(a.rgb, a.ch, dev)
        no == [err |-> None, pointcloud |-> None, verts |-> None, rgb |-> None,
               object |-> None]
    IN  IF e0 # None THEN [no EXCEPT !.err = e0]
        ELSE IF "verts" \notin a.keys
            THEN [no EXCEPT !.err = Some("KeyError"), !.pointcloud = Some(a)]
        ELSE IF "rgb" \notin a.keys
            THEN [no EXCEPT !.pointcloud = Some(a), !.verts = Some(v),
                            !.object = Some(PointcloudsObject(v, Tensor(<<>>, 3, dev)))]
        ELSE IF ~PointcloudsAccepts(v, c)
            THEN [no EXCEPT !.err = Some("ValueError"), !.pointcloud = Some(a),
                            !.verts = Some(v), !.rgb = Some(c)]
        ELSE [no EXCEPT !.pointcloud = Some(a), !.verts = Some(v), !.rgb = Some(c),
                        !.object = Some(PointcloudsObject(v, c))]

\* Mutant of LoadResult: a file that cannot be loaded is replaced by an empty
\* cloud and the run goes on.
LoadResult_Fallback(files, dev) ==
    LET e0 == NpLoadError(files)
        a  == files[ObjFileIndex]
        v  == Tensor(a.verts, 3, dev)
        c  == Tensor(a.rgb, a.ch, dev)
        z  == Tensor(<<>>, 3, dev)
        no == [err |-> None, pointcloud |-> None, verts |-> None, rgb |-> None,
               object |-> None]
    IN  IF e0 # None
            THEN [no EXCEPT !.verts = Some(z), !.rgb = Some(z),
                            !.object = Some(PointcloudsObject(z, z))]
        ELSE IF "verts" \notin a.keys
            THEN [no EXCEPT !.err = Some("KeyError"), !.pointcloud = Some(a)]
        ELSE IF "rgb" \notin a.keys
            THEN [no EXCEPT !.err = Some("KeyError"), !.pointcloud = Some(a),
                            !.verts = Some(v)]
        ELSE IF ~PointcloudsAccepts(v, c)
            THEN [no EXCEPT !.err = Some("ValueError"), !.pointcloud = Some(a),
                            !.verts = Some(v), !.rgb = Some(c)]
        ELSE [no EXCEPT !.pointcloud = Some(a), !.verts = Some(v), !.rgb = Some(c),
                        !.object = Some(PointcloudsObject(v, c))]

\* The load statements in order, each one run only if those before it did
\* not raise: the names bound so far, the exception, the object built.
LoadResult(files, dev) ==
    LET e0 == NpLoadError(files)
        a  == files[ObjFileIndex]
        v  == Tensor(a.verts, 3, dev)
        c  == Tensor(a.rgb, a.ch, dev)
        no == [err |-> None, pointcloud |-> None, verts |-> None, rgb |-> None,
               object |-> None]
    IN  IF e0 # None THEN [no EXCEPT !.err = e0]
        ELSE IF "verts" \notin a.keys
            THEN [no EXCEPT !.err = Some("KeyError"), !.pointcloud = Some(a)]
        ELSE IF "rgb" \notin a.keys
            THEN [no EXCEPT !.err = Some("KeyError"), !.pointcloud = Some(a),
                            !.verts = Some(v)]
        ELSE IF ~PointcloudsAccepts(v, c)
            THEN [no EXCEPT !.err = Some("ValueError"), !.pointcloud = Some(a),
                            !.verts = Some(v), !.rgb = Some(c)]
        ELSE [no EXCEPT !.pointcloud = Some(a), !.verts = Some(v), !.rgb = Some(c),
                        !.object = Some(PointcloudsObject(v, c))]

\* pointcloud = np.load(...); verts = ...; rgb = ...; point_cloud = Pointclouds(...)
LoadPointCloud ==
    /\ pc = "load"
    /\ LET r == LoadResult(fs, Get(device))
       IN  /\ pointcloud' = r.pointcloud
           /\ verts' = r.verts
           /\ rgb' = r.rgb
           /\ IF r.err = None
              THEN /\ heap' = Alloc(heap, Get(r.object))
                   /\ point_cloud' = Some(NewAddr(heap))
                   /\ Advance("load")
              ELSE /\ heap' = heap
                   /\ point_cloud' = point_cloud
                   /\ Raise("load", Get(r.err))
    /\ UNCHANGED <<env, device, cfgNames, images, calls, shown>>

\* ------------------------------------------- camera, settings, renderer
\* look_at_view_transform(dist, elev, azim): the (R, T) pair, determined by
\* its three arguments.
LookAtViewTransform(dist, elev, azim) == [dist |-> dist, elev |-> elev, azim |-> azim]

\* OpenGLOrthographicCameras(device=dev, R=R, T=T, znear=0.01)
CamerasObject(dev, pose, znear) ==
    [kind |-> "OpenGLOrthographicCameras", device |-> dev, pose |-> pose,
     znear |-> znear]

\* PointsRasterizationSettings(image_size=..., radius=..., points_per_pixel=...)
SettingsObject(size, radius, ppp) ==
    [kind |-> "PointsRasterizationSettings", image_size |-> size,
     radius |-> radius, points_per_pixel |-> ppp]

\* PointsRasterizer(cameras=cameras, raster_settings=raster_settings): the
\* rasterizer keeps the two objects it is given, by reference.
RasterizerObject(cam, settings) ==
    [kind |-> "PointsRasterizer", cameras |-> cam, raster_settings |-> settings]

\* AlphaCompositor(composite_params=None), NormWeightedCompositor(composite_params=None)
CompositorObject(kind) == [kind |-> kind, composite_params |-> None]

\* PointsRenderer(rasterizer=..., compositor=...)
RendererObject(rasterizer, compositor) ==
    [kind |-> "PointsRenderer", rasterizer |-> rasterizer, compositor |-> compositor]

\* First cell: R, T = look_at_view_transform(20, 10, 0)
ViewTransform1 == LookAtViewTransform(ViewDist, ViewElev, ViewAzim)
\* First cell: cameras = OpenGLOrthographicCameras(device=device, R=R, T=T, znear=0.01)
Cameras1(dev, pose) == CamerasObject(dev, pose, ZNearHundredths)
\* First cell: raster_settings = PointsRasterizationSettings(512, 0.003, 10)
RasterSettings1 == SettingsObject(ImageSize, RadiusThousandths, PointsPerPixel)
\* First cell: compositor=AlphaCompositor(composite_params=None)
Compositor1 == CompositorObject("AlphaCompositor")

\* Mutant of ViewTransform2: the second camera moved to the other side.
ViewTransform2_Moved == LookAtViewTransform(ViewDist, ViewElev, 180)

\* Second cell: R, T = look_at_view_transform(20, 10, 0)
ViewTransform2 == LookAtViewTransform(ViewDist, ViewElev, ViewAzim)
\* Mutant of Cameras2: device=device left out, so the camera is on the cpu.
Cameras2_DefaultDevice(dev, pose) == CamerasObject("cpu", pose, ZNearHundredths)

\* Second cell: cameras = OpenGLOrthographicCameras(device=device, R=R, T=T, znear=0.01)
Cameras2(dev, pose) == CamerasObject(dev, pose, ZNearHundredths)
\* Mutant of RasterSettings2: another output resolution.
RasterSettings2_Small == SettingsObject(256, RadiusThousandths, PointsPerPixel)

\* Second cell: raster_settings = PointsRasterizationSettings(512, 0.003, 10)
RasterSettings2 == SettingsObject(ImageSize, RadiusThousandths, PointsPerPixel)
\* Second cell: compositor=NormWeightedCompositor(composite_params=None)
Compositor2 == CompositorObject("NormWeightedCompositor")

\* The statements of a configuration cell up to raster_settings: two new
\* objects, and the three names rebound to them.
Configure(s, pose, cam, settings) ==
    /\ RT' = Some(pose)
    /\ heap' = Alloc(Alloc(heap, cam), settings)
    /\ cameras' = Some(NewAddr(heap))
    /\ raster_settings' = Some(NewAddr(heap) + 1)
    /\ Advance(s)
    /\ UNCHANGED <<env, loadNames, renderer, images, calls, shown>>

\* renderer = PointsRenderer(rasterizer=PointsRasterizer(...), compositor=...):
\* three new objects; the rasterizer refers to the objects the names cameras
\* and raster_settings are bound to now.
Assemble(s, compositor) ==
    /\ LET a == NewAddr(heap)
       IN  /\ heap' = Alloc(Alloc(Alloc(heap,
                         RasterizerObject(Get(cameras), Get(raster_settings))),
                         compositor),
                         RendererObject(a, a + 1))
           /\ renderer' = Some(a + 2)
    /\ Advance(s)
    /\ UNCHANGED <<env, loadNames, RT, cameras, raster_settings, images, calls, shown>>

\* The alpha-compositing cell up to raster_settings.
ConfigureAlpha ==
    /\ pc = "config1"
    /\ Configure("config1", ViewTransform1, Cameras1(Get(device), ViewTransform1),
                 RasterSettings1)

\* The alpha-compositing cell's renderer = PointsRenderer(...).
AssembleAlpha ==
    /\ pc = "assemble1"
    /\ Assemble("assemble1", Compositor1)

\* Mutant of ConfigureNormWeighted: the cell also builds a second point cloud,
\* with the positions as its features, and rebinds point_cloud to it.
ConfigureNormWeighted_Rebuild ==
    /\ pc = "config2"
    /\ RT' = Some(ViewTransform2)
    /\ heap' = Alloc(Alloc(Alloc(heap, Cameras2(Get(device), ViewTransform2)),
                           RasterSettings2),
                     PointcloudsObject(Get(verts), Get(verts)))
    /\ cameras' = Some(NewAddr(heap))
    /\ raster_settings' = Some(NewAddr(heap) + 1)
    /\ point_cloud' = Some(NewAddr(heap) + 2)
    /\ Advance("config2")
    /\ UNCHANGED <<env, device, pointcloud, verts, rgb, renderer, images, calls, shown>>

\* The weighted-compositing cell up to raster_settings.
ConfigureNormWeighted ==
    /\ pc = "config2"
    /\ Configure("config2", ViewTransform2, Cameras2(Get(device), ViewTransform2),
                 RasterSettings2)

\* The weighted-compositing cell's renderer = PointsRenderer(...).
AssembleNormWeighted ==
    /\ pc = "assemble2"
    /\ Assemble("assemble2", Compositor2)

\* ------------------------------------------------------ render and display
\* What renderer(point_cloud) reads: the cloud's arrays and, through the
\* renderer's references, the camera, the settings and the compositor, as
\* the heap holds them at the call.
RenderInput(h, r, p) ==
    [points     |-> h[p].points[1],
     features   |-> h[p].features[1],
     camera     |-> h[h[h[r].rasterizer].cameras],
     settings   |-> h[h[h[r].rasterizer].raster_settings],
     compositor |-> h[h[r].compositor].kind]

\* The library transforms the points by the camera: both on one device.
RenderError(inp) ==
    IF inp.camera.device # inp.points.device \/ inp.features.device # inp.points.device
    THEN Some("RuntimeError")
    ELSE None

\* PointsRenderer.forward: a batch of one image of image_size x image_size
\* pixels with one channel per feature channel, determined by the input.
RenderImage(inp) ==
    [N |-> 1, H |-> inp.settings.image_size, W |-> inp.settings.image_size,
     C |-> inp.features.ch, device |-> inp.features.device, of |-> inp]

Min(a, b) == IF a <= b THEN a ELSE b

\* images[0, ..., :3].cpu().numpy()
ImshowArg(img) ==
    [batch |-> DisplayBatchIndex, H |-> img.H, W |-> img.W,
     C |-> Min(img.C, DisplayChannels), device |-> "cpu", of |-> img.of]

\* images = renderer(point_cloud)
Render(s) ==
    /\ LET inp == RenderInput(heap, Get(renderer), Get(point_cloud))
           e   == RenderError(inp)
           call == [renderer |-> Get(renderer), cloud |-> Get(point_cloud),
                    input |-> inp,
                    image |-> IF e = None THEN Some(RenderImage(inp)) ELSE None]
       IN  /\ calls' = Append(calls, call)
           /\ IF e = None
              THEN images' = Some(RenderImage(inp)) /\ Advance(s)
              ELSE images' = images /\ Raise(s, Get(e))
    /\ UNCHANGED <<env, loadNames, cfgNames, heap, shown>>

\* plt.figure(...); plt.imshow(images[0, ..., :3].cpu().numpy()); plt.grid; plt.axis
Display(s) ==
    /\ shown' = Append(shown, ImshowArg(Get(images)))
    /\ Advance(s)
    /\ UNCHANGED <<env, loadNames, cfgNames, images, heap, calls>>

\* The cell after the alpha-compositing renderer: its first line.
RenderAlpha ==
    /\ pc = "render1"
    /\ Render("render1")

\* The cell after the alpha-compositing renderer: its plotting lines.
DisplayAlpha ==
    /\ pc = "display1"
    /\ Display("display1")

\* The cell after the weighted-compositing renderer: its first line.
RenderNormWeighted ==
    /\ pc = "render2"
    /\ Render("render2")

\* The cell after the weighted-compositing renderer: its plotting lines.
DisplayNormWeighted ==
    /\ pc = "display2"
    /\ Display("display2")

\* ------------------------------------------------------------ a new run
\* Restart the kernel and Run All again: the names, the heap and the figures
\* are gone, the files and the importable packages stay.
Restart ==
    /\ pc \in {"done", "failed"}
    /\ run < MaxRuns
    /\ run' = run + 1
    /\ pc' = "install"
    /\ error' = None
    /\ trace' = <<>>
    /\ device' = None /\ pointcloud' = None /\ verts' = None /\ rgb' = None
    /\ point_cloud' = None
    /\ RT' = None /\ cameras' = None /\ raster_settings' = None /\ renderer' = None
    /\ images' = None
    /\ heap' = <<>>
    /\ calls' = <<>>
    /\ shown' = <<>>
    /\ UNCHANGED env

Next ==
    \/ InstallDeps
    \/ ImportModules
    \/ FetchAsset
    \/ SetupDevice
    \/ LoadPointCloud
    \/ ConfigureAlpha
    \/ AssembleAlpha
    \/ RenderAlpha
    \/ DisplayAlpha
    \/ ConfigureNormWeighted
    \/ AssembleNormWeighted
    \/ RenderNormWeighted
    \/ DisplayNormWeighted
    \/ Restart

Spec == Init /\ [][Next]_vars

\* ================================================================ claims
\* Helpers of the claims' formulas.
Executed(s) == \E i \in 1..Len(trace) : trace[i] = s
FileMissing == Len(fs) = 0
\* An archive that holds both arrays, one color record per position.
WellFormed(a) ==
    /\ a.parses
    /\ a.keys = {"verts", "rgb"}
    /\ Len(a.verts) = Len(a.rgb)
FileMalformed == ~FileMissing /\ ~WellFormed(fs[1])
\* The stage of the pipeline, 1 (environment setup) to 7 (display), a step
\* belongs to; the device selection shares its cell with the load.
Stage(s) ==
    CASE s \in {"install", "import"} -> 1
      [] s = "fetch" -> 2
      [] s \in {"setup", "load"} -> 3
      [] s \in {"config1", "config2"} -> 4
      [] s \in {"assemble1", "assemble2"} -> 5
      [] s \in {"render1", "render2"} -> 6
      [] s \in {"display1", "display2"} -> 7

\* The stages in the order one run goes through them.
StageOrder == <<1, 1, 2, 3, 3, 4, 5, 6, 7, 4, 5, 6, 7>>

\* C1 (as stated): the stages happen in the fixed order 1..7 and no stage is
\* ever entered again after a later stage has run.
C1_NoStageReentered ==
    \A i \in 1..Len(trace) : \A j \in 1..Len(trace) :
        i < j => Stage(trace[i]) <= Stage(trace[j])

\* C1 (amended): a run goes through setup, fetch and load once and then twice
\* through configuration, assembly, render, display, always in this order and
\* each step only after the step before it has completed; stages 1 to 3 are
\* never entered again; a render happens only with a loaded point cloud and an
\* assembled renderer, and the k-th display only after the k-th render.
C1_PipelineOrder ==
    /\ Len(trace) <= Len(StageOrder)
    /\ \A i \in 1..Len(trace) : Stage(trace[i]) = StageOrder[i]
    /\ pc \notin {"failed", "done"} => Stage(pc) = StageOrder[Len(trace) + 1]
    /\ pc = "done" => Len(trace) = Len(StageOrder)
    /\ \A i \in 1..Len(trace) : \A j \in 1..Len(trace) :
          (i < j /\ Stage(trace[j]) <= 3) => Stage(trace[i]) <= Stage(trace[j])
    /\ \A i \in 1..Len(trace) :
          Stage(trace[i]) = 6 =>
              /\ \E j \in 1..(i - 1) : trace[j] = "load"
              /\ \E j \in 1..(i - 1) : Stage(trace[j]) = 5
              /\ i > 1 /\ Stage(trace[i - 1]) = 5
    /\ \A i \in 1..Len(trace) :
          Stage(trace[i]) = 7 => (i > 1 /\ Stage(trace[i - 1]) = 6)
    /\ Len(calls) >= 1 => (point_cloud # None /\ renderer # None)
    /\ Len(shown) <= Len(calls)

\* C1 witness: a run that executed every step, the second pass included.
C1_Witness ==
    /\ pc = "done"
    /\ Len(trace) = 13
    /\ trace[10] = "config2" /\ trace[9] = "display1"

\* C2: after a successful load the point cloud has one color record per
\* position, and so has the cloud each of the two render calls receives.
C2_MatchingLengths ==
    /\ point_cloud # None =>
          LET o == heap[Get(point_cloud)]
          IN  Len(o.points[1].data) = Len(o.features[1].data)
    /\ \A k \in 1..Len(calls) :
          Len(calls[k].input.points.data) = Len(calls[k].input.features.data)

\* C2 witness: both renders were given a cloud of two points and two colors.
C2_Witness ==
    /\ Len(calls) = 2
    /\ Len(calls[1].input.points.data) = 2
    /\ Len(calls[2].input.features.data) = 2

\* C3: once the load has run, either the file was missing and the load failed
\* with file-not-found, or the archive was malformed and the load failed with
\* an error of reading it (unparseable file, array missing, arrays that do not
\* match), in both cases with no point cloud; or the point cloud holds exactly
\* the archive's two arrays.
C3_LoadOutcomes ==
    Executed("load") =>
        \/ /\ FileMissing
           /\ error = Some("FileNotFoundError")
           /\ point_cloud = None /\ heap = <<>>
        \/ /\ FileMalformed
           /\ error \in {Some("ParseError"), Some("KeyError"), Some("ValueError")}
           /\ point_cloud = None /\ heap = <<>>
        \/ /\ ~FileMissing /\ ~FileMalformed
           /\ error = None
           /\ verts # None /\ rgb # None /\ point_cloud # None
           /\ Get(verts).data = fs[1].verts
           /\ Get(rgb).data = fs[1].rgb
           /\ heap[Get(point_cloud)].points = <<Get(verts)>>
           /\ heap[Get(point_cloud)].features = <<Get(rgb)>>

\* C3 witness: an archive with positions and no colors; the load stopped after
\* binding verts and built no point cloud.
C3_Witness ==
    /\ Executed("load")
    /\ ~FileMissing /\ fs[1].parses /\ fs[1].keys = {"verts"} /\ Len(fs[1].verts) = 2
    /\ verts # None /\ rgb = None /\ point_cloud = None
    /\ error = Some("KeyError")

\* C4: every image a render returns is 512 x 512, for both renderers, and
\* what is displayed is batch element 0 of it cut to its first three channels.
C4_ImageResolution ==
    /\ \A k \in 1..Len(calls) :
          calls[k].image # None =>
              /\ Get(calls[k].image).H = 512 /\ Get(calls[k].image).W = 512
              /\ Get(calls[k].image).H = calls[k].input.settings.image_size
    /\ images # None => (Get(images).H = 512 /\ Get(images).W = 512)
    /\ \A k \in 1..Len(shown) :
          /\ shown[k].H = 512 /\ shown[k].W = 512
          /\ shown[k].batch = 0
          /\ shown[k].C = 3
          /\ shown[k].of = Get(calls[k].image).of

\* C4 witness: both images displayed, rendered from four-channel colors.
C4_Witness ==
    /\ Len(shown) = 2
    /\ Get(images).C = 4
    /\ calls[1].input.compositor = "AlphaCompositor"
    /\ calls[2].input.compositor = "NormWeightedCompositor"

\* C5 (as stated): when pointcloud.npz exists before the fetch stage runs, the
\* stage downloads nothing and creates or changes no file.
C5_FetchOnlyIfAbsent ==
    [][(pc = "fetch" /\ Len(fs) >= 1) => fs' = fs]_vars

\* C6 (as stated): whenever the file is missing, the archive is malformed or
\* the CUDA device is unavailable, the run ends failed and no image is
\* rendered or displayed.
C6_AnyFailureEndsRun ==
    /\ (Executed("load") /\ (FileMissing \/ FileMalformed)) =>
          (pc = "failed" /\ calls = <<>> /\ shown = <<>> /\ images = None)
    /\ (Executed("setup") /\ ~cuda) =>
          (pc # "done" /\ calls = <<>> /\ shown = <<>> /\ images = None)

\* C6 (amended): a missing file or a malformed archive ends the run failed at
\* the load, with the load's exception and with nothing rendered or displayed
\* (no fallback, no retry); an unavailable CUDA device is no failure: the setup
\* selects the cpu and a run with a well-formed archive does not fail.
C6_LoadFailuresEndRun ==
    /\ (Executed("load") /\ (FileMissing \/ FileMalformed)) =>
          /\ pc = "failed"
          /\ error \in {Some("FileNotFoundError"), Some("ParseError"),
                        Some("KeyError"), Some("ValueError")}
          /\ trace[Len(trace)] = "load"
          /\ point_cloud = None
          /\ calls = <<>> /\ shown = <<>> /\ images = None
    /\ (Executed("load") /\ ~cuda /\ ~FileMissing /\ ~FileMalformed) =>
          /\ device = Some("cpu")
          /\ pc # "failed" /\ error = None
          /\ pc = "done" => (Len(calls) = 2 /\ Len(shown) = 2)

\* C6 witness: no file at the data path and no CUDA device; the run stopped at
\* the load.
C6_Witness ==
    /\ pc = "failed"
    /\ error = Some("FileNotFoundError")
    /\ FileMissing
    /\ ~cuda /\ device = Some("cpu")

\* C7: within a run the name point_cloud is bound once, by the load, and then
\* neither rebound nor is the object it names changed; the two render calls
\* receive the same point cloud (positions, colors, device).
C7_PointCloudImmutable ==
    /\ [][(run' = run /\ point_cloud' # point_cloud) =>
             (pc = "load" /\ point_cloud = None)]_vars
    /\ [][(run' = run /\ point_cloud # None) =>
             heap'[Get(point_cloud)] = heap[Get(point_cloud)]]_vars
    /\ [](Len(calls) = 2 =>
             /\ calls[2].cloud = calls[1].cloud
             /\ calls[2].input.points = calls[1].input.points
             /\ calls[2].input.features = calls[1].input.features)

\* C7 witness: the second render was called on a cloud of two points.
C7_Witness ==
    /\ Len(calls) = 2
    /\ Executed("render2")
    /\ Len(heap[Get(point_cloud)].points[1].data) = 2

\* C9: the two render calls use the same camera (look_at_view_transform(20,
\* 10, 0), znear 0.01) and the same settings (512, 0.003, 10) and differ in
\* the compositor only; the second cell's objects are new ones, and the
\* configuration the first renderer refers to is, after the rebinding, still
\* the one its render used.
C9_OnlyCompositorDiffers ==
    /\ \A k \in 1..Len(calls) :
          /\ calls[k].input.camera.pose = [dist |-> 20, elev |-> 10, azim |-> 0]
          /\ calls[k].input.camera.znear = 1
          /\ calls[k].input.settings.image_size = 512
          /\ calls[k].input.settings.radius = 3
          /\ calls[k].input.settings.points_per_pixel = 10
          /\ RenderInput(heap, calls[k].renderer, calls[k].cloud) = calls[k].input
    /\ Len(calls) >= 1 => calls[1].input.compositor = "AlphaCompositor"
    /\ Len(calls) = 2 =>
          /\ calls[2].input.camera = calls[1].input.camera
          /\ calls[2].input.settings = calls[1].input.settings
          /\ calls[2].input.compositor = "NormWeightedCompositor"
          /\ calls[2].renderer # calls[1].renderer
          /\ heap[calls[2].renderer].rasterizer # heap[calls[1].renderer].rasterizer

\* C9 witness: the run is over, both compositors were used, and the names
\* cameras and renderer are bound to the second cell's objects.
C9_Witness ==
    /\ pc = "done"
    /\ Len(calls) = 2
    /\ calls[1].input.compositor # calls[2].input.compositor
    /\ Get(renderer) = calls[2].renderer
    /\ Get(cameras) # heap[heap[calls[1].renderer].rasterizer].cameras

\* C10: within a run the device is chosen once, cuda:0 if CUDA is available
\* and cpu otherwise, and never changes; at every render call the positions,
\* the colors and the renderer's camera are on that device.
C10_DeviceConsistency ==
    /\ [][(run' = run /\ device # None) => device' = device]_vars
    /\ [](device # None => device = Some(IF cuda THEN "cuda:0" ELSE "cpu"))
    /\ [](\A k \in 1..Len(calls) :
             /\ calls[k].input.points.device = Get(device)
             /\ calls[k].input.features.device = Get(device)
             /\ calls[k].input.camera.device = Get(device))

\* C10 witness: both renders were called with CUDA available.
C10_Witness ==
    /\ Len(calls) = 2
    /\ cuda
    /\ device = Some("cuda:0")
    /\ calls[2].input.camera.device = "cuda:0"
====
